---- MODULE Spec2Model ----
(***************************************************************************)
(* Model of the translator (src/main.rs): the UTF-16LE codec               *)
(* (string_to_utf16_vec), the in-place substitutor (replace_slice), the    *)
(* per-entry applier (translate) and the section loop of main.             *)
(*                                                                         *)
(* A byte is a number in 0..255, a string a sequence of Unicode scalar     *)
(* values, a byte buffer a sequence of bytes.  Rust indexes from 0, TLA+   *)
(* sequences from 1: offset k of a slice src is src[k + 1].                *)
(*                                                                         *)
(* Three levels are checked, each under its own specification:             *)
(*   SpecReplace          one call of replace_slice on any region and any  *)
(*                        two patterns, one action per loop iteration;     *)
(*   SpecEntry, SpecTable translate on a region, entry by entry, each      *)
(*                        entry's scan running through the same actions;   *)
(*   SpecMain             the section loop of main, one action per         *)
(*                        section, translate applied as a whole.           *)
(***************************************************************************)
EXTENDS Integers, Sequences, FiniteSets, TLC

VARIABLES
    exe_buf,             \* main: the image buffer (Vec<u8>), mutated in place
    buf0,                \* the buffer as loaded (history, never written)
    translations,        \* Vec<Translation>: records [original, translated]
    potentially_harmful, \* the -p flag
    overflow_checks,     \* build profile as far as the run has shown it:
                         \* "either" until a usize subtraction overflows,
                         \* "off" once one has wrapped (with checks on, the
                         \* first overflow panics and the run is over)
    pc,                  \* position of the single thread of control
    section,             \* main: the section the for_each closure is running on
    sec,                 \* main: number of sections the closure has been given
    selected,            \* main: buffer offsets inside the extents handed to translate (history)
    tr,                  \* translate: index of the entry the for loop is at (1-based)
    base,                \* start of the slice handed to translate / replace_slice
    size,                \* source.len() of that slice
    from,                \* replace_slice: pattern searched for
    to,                  \* replace_slice: pattern written
    i,                   \* replace_slice: the 'outer loop variable
    range_end,           \* replace_slice: exclusive end of the 'outer range
    number_replaced,     \* replace_slice: matches replaced so far
    slice0,              \* the slice's bytes when replace_slice was entered (history)
    out,                 \* lines printed to standard output by translate
    written              \* write_result: <<>> until called, then <<the bytes written>>

vars == <<exe_buf, buf0, translations, potentially_harmful, overflow_checks,
          pc, section, sec, selected, tr, base, size, from, to, i, range_end,
          number_replaced, slice0, out, written>>

----------------------------------------------------------------------------
(* Bounds of the model.                                                    *)

\* SpecReplace: longest region, longest pattern.
MaxRegionLen == 5
MaxPatLen == 3

\* SpecEntry: longest region; most characters of one entry, both strings together.
MaxEntryRegionLen == 7
MaxEntryChars == 3

\* SpecTable: longest region; largest table, a row counting for its
\* characters plus one.
MaxTableRegionLen == 4
MaxTableSize == 5

\* SpecMain: longest image, most sections, most characters of the one entry.
MaxImageLen == 5
MaxSections == 2
MaxMainChars == 1

\* Byte values the regions, the images and the patterns of SpecReplace are drawn from.
ByteVals == {0, 1}

\* Scalar values the strings of the translation table are drawn from:
\* NUL, U+0001 (encoded 01 00), U+0100 (encoded 00 01).
Chars == {0, 1, 256}

\* The same without NUL, for the larger tables.
TableChars == {1, 256}

\* usize arithmetic wraps modulo 2^64 in a build without overflow checks.  The
\* model keeps the wrap with a 30-bit word: every wrapped value is still
\* larger than any slice length of the model, which is all the code observes.
UsizeModulus == 2^30

----------------------------------------------------------------------------
(* Generic helpers.                                                        *)

Max(a, b) == IF a >= b THEN a ELSE b

SeqsUpTo(S, n) == UNION {[1..k -> S] : k \in 0..n}

\* The slice &mut buf[b .. b+n] as a sequence of its own.
SliceOf(buf, b, n) == SubSeq(buf, b + 1, b + n)

\* buf after the slice at b was mutated to src (the slice is a view of buf).
Splice(buf, b, src) ==
    [x \in 1..Len(buf) |->
        IF x > b /\ x <= b + Len(src) THEN src[x - b] ELSE buf[x]]

----------------------------------------------------------------------------
(* Text codec: string_to_utf16_vec.                                        *)

\* str::encode_utf16 for one scalar value: one code unit below U+10000, a
\* surrogate pair from there on.
EncodeUtf16Char(c) ==
    IF c < 65536
    THEN <<c>>
    ELSE <<55296 + ((c - 65536) \div 1024), 56320 + ((c - 65536) % 1024)>>

RECURSIVE EncodeUtf16(_)
EncodeUtf16(s) ==
    IF s = <<>> THEN <<>>
    ELSE EncodeUtf16Char(Head(s)) \o EncodeUtf16(Tail(s))

\* Mutant of UnitsToBytes: the two pushes are swapped, high byte first.
RECURSIVE UnitsToBytes_BigEndian(_)
UnitsToBytes_BigEndian(u) ==
    IF u = <<>> THEN <<>>
    ELSE <<(Head(u) \div 256) % 256, Head(u) % 256>> \o UnitsToBytes_BigEndian(Tail(u))

\* v as u8, (v >> 8) as u8 for every code unit, low byte first.
RECURSIVE UnitsToBytes(_)
UnitsToBytes(u) ==
    IF u = <<>> THEN <<>>
    ELSE <<Head(u) % 256, (Head(u) \div 256) % 256>> \o UnitsToBytes(Tail(u))

string_to_utf16_vec(s) == UnitsToBytes(Append(EncodeUtf16(s), 0))

----------------------------------------------------------------------------
(* replace_slice: the pieces of one iteration of the 'outer loop.          *)

\* end_offset = max(from.len(), to.len())
EndOffset(f, t) == Max(Len(f), Len(t))

\* Mutant of RangeEnd: the range stops one offset early (the + 1 is lost).
RangeEnd_NoPlusOne(n, f, t) == (n - EndOffset(f, t)) % UsizeModulus

\* source.len() - end_offset + 1 in wrapping usize arithmetic, n = source.len().
RangeEnd(n, f, t) == (((n - EndOffset(f, t)) % UsizeModulus) + 1) % UsizeModulus

\* How the inner comparison loop at offset k ends, from index j on: by an
\* index out of bounds ("oob"), by a differing element ("differs"), or by
\* running to its end ("match").
RECURSIVE Compare(_, _, _, _)
Compare(src, f, k, j) ==
    IF j = Len(f) THEN "match"
    ELSE IF k + j >= Len(src) THEN "oob"
    ELSE IF src[k + j + 1] # f[j + 1] THEN "differs"
    ELSE Compare(src, f, k, j + 1)

\* Mutant of WriteAt: the first write loop (the defaults) is lost.
WriteAt_NoZeroFill(src, f, t, k) ==
    [x \in 1..Len(src) |->
        LET j == x - 1 - k IN
        IF j >= 0 /\ j < Len(t) THEN t[j + 1]
        ELSE src[x]]

\* The slice after the two write loops at offset k: from.len() defaults, then
\* the elements of `to`, up to the first index that is out of bounds.
WriteAt(src, f, t, k) ==
    [x \in 1..Len(src) |->
        LET j == x - 1 - k IN
        IF j >= 0 /\ j < Len(t) THEN t[j + 1]
        ELSE IF j >= 0 /\ j < Len(f) THEN 0
        ELSE src[x]]

\* Line 137 indexes past the slice when `to` does not fit at offset k.
WritePanics(src, t, k) == k + Len(t) > Len(src)

----------------------------------------------------------------------------
(* replace_slice, one action per iteration of the 'outer loop.             *)

\* Lines 121-125: number_replaced = 0, end_offset, the range of the loop.
\* When the slice is shorter than end_offset the subtraction overflows: it
\* panics in a build with overflow checks and wraps in one without.
ReplaceSliceEnter ==
    /\ pc = "call"
    /\ slice0' = SliceOf(exe_buf, base, size)
    /\ number_replaced' = 0
    /\ i' = 0
    /\ IF size >= EndOffset(from, to)
       THEN /\ pc' = "scan"
            /\ range_end' = RangeEnd(size, from, to)
            /\ UNCHANGED overflow_checks
       ELSE \/ /\ overflow_checks = "either"
               /\ pc' = "panicked"
               /\ range_end' = 0
               /\ UNCHANGED overflow_checks
            \/ /\ pc' = "scan"
               /\ range_end' = RangeEnd(size, from, to)
               /\ overflow_checks' = "off"
    /\ UNCHANGED <<exe_buf, buf0, translations, potentially_harmful, section,
                   sec, selected, tr, base, size, from, to, out, written>>

\* Lines 126-130: an element differs, continue 'outer.
ScanMismatch ==
    /\ pc = "scan"
    /\ i < range_end
    /\ Compare(SliceOf(exe_buf, base, size), from, i, 0) = "differs"
    /\ i' = i + 1
    /\ UNCHANGED <<exe_buf, buf0, translations, potentially_harmful,
                   overflow_checks, pc, section, sec, selected, tr, base, size,
                   from, to, range_end, number_replaced, slice0, out, written>>

\* Line 127: source[i+j] with i+j >= source.len() panics.
ScanIndexPanic ==
    /\ pc = "scan"
    /\ i < range_end
    /\ Compare(SliceOf(exe_buf, base, size), from, i, 0) = "oob"
    /\ pc' = "panicked"
    /\ UNCHANGED <<exe_buf, buf0, translations, potentially_harmful,
                   overflow_checks, section, sec, selected, tr, base, size,
                   from, to, i, range_end, number_replaced, slice0, out, written>>

\* Lines 132-140: a match at i is zeroed and overwritten by `to`; line 137
\* panics, after the writes before it, when `to` does not fit in the slice.
ScanMatch ==
    /\ pc = "scan"
    /\ i < range_end
    /\ Compare(SliceOf(exe_buf, base, size), from, i, 0) = "match"
    /\ exe_buf' = Splice(exe_buf, base,
                         WriteAt(SliceOf(exe_buf, base, size), from, to, i))
    /\ IF WritePanics(SliceOf(exe_buf, base, size), to, i)
       THEN /\ pc' = "panicked"
            /\ UNCHANGED <<i, number_replaced>>
       ELSE /\ pc' = "scan"
            /\ number_replaced' = number_replaced + 1
            /\ i' = i + 1
    /\ UNCHANGED <<buf0, translations, potentially_harmful, overflow_checks,
                   section, sec, selected, tr, base, size, from, to, range_end,
                   slice0, out, written>>

\* Line 143: the range is exhausted, number_replaced is returned.
ScanExit ==
    /\ pc = "scan"
    /\ i >= range_end
    /\ pc' = "ret"
    /\ UNCHANGED <<exe_buf, buf0, translations, potentially_harmful,
                   overflow_checks, section, sec, selected, tr, base, size,
                   from, to, i, range_end, number_replaced, slice0, out, written>>

ReplaceNext ==
    \/ ReplaceSliceEnter
    \/ ScanMismatch
    \/ ScanIndexPanic
    \/ ScanMatch
    \/ ScanExit

\* No section has been looked at.
NoSection == [name |-> "none", ptr |-> 0, size |-> 0]

\* replace_slice on its own: any region, any two patterns.
ReplaceInit ==
    /\ exe_buf \in SeqsUpTo(ByteVals, MaxRegionLen)
    /\ buf0 = exe_buf
    /\ from \in SeqsUpTo(ByteVals, MaxPatLen)
    /\ to \in SeqsUpTo(ByteVals, MaxPatLen)
    /\ overflow_checks = "either"
    /\ base = 0
    /\ size = Len(exe_buf)
    /\ pc = "call"
    /\ translations = <<>>
    /\ potentially_harmful = FALSE
    /\ section = NoSection
    /\ sec = 0
    /\ selected = {}
    /\ tr = 1
    /\ i = 0
    /\ range_end = 0
    /\ number_replaced = 0
    /\ slice0 = exe_buf
    /\ out = <<>>
    /\ written = <<>>

SpecReplace == ReplaceInit /\ [][ReplaceNext]_vars

----------------------------------------------------------------------------
(* translate, entry by entry.                                              *)

\* Mutant of TooLong: the comparison of line 102 is turned around.
TooLong_Reversed(e) ==
    Len(string_to_utf16_vec(e.translated)) < Len(string_to_utf16_vec(e.original))

\* Line 102: original.len() < translated.len(), on the encoded strings.
TooLong(e) ==
    Len(string_to_utf16_vec(e.original)) < Len(string_to_utf16_vec(e.translated))

\* Mutant of EntryAfter: the iterator is advanced twice.
EntryAfter_SkipsOne(k) == k + 2

\* Line 98: the iterator over the table moves to the next entry.
EntryAfter(k) == k + 1

\* The three lines translate prints.
SkipWarning(e) ==
    [kind |-> "skipping", original |-> e.original, translated |-> e.translated]

HarmWarning(e) ==
    [kind |-> "errors may happen", original |-> e.original, translated |-> e.translated]

ReplacedLine(n, e) == [kind |-> "replaced", count |-> n, original |-> e.original]

\* Lines 102-108: the translation is longer and the flag is off: the warning
\* is printed and the loop continues with the next entry.
TranslateSkip ==
    /\ pc = "translate"
    /\ tr <= Len(translations)
    /\ TooLong(translations[tr])
    /\ ~potentially_harmful
    /\ out' = Append(out, SkipWarning(translations[tr]))
    /\ tr' = EntryAfter(tr)
    /\ UNCHANGED <<exe_buf, buf0, translations, potentially_harmful,
                   overflow_checks, pc, section, sec, selected, base, size,
                   from, to, i, range_end, number_replaced, slice0, written>>

\* Lines 99-111: the entry is encoded and replace_slice is called, after a
\* warning if the translation is longer and the flag is on.
TranslateCall ==
    /\ pc = "translate"
    /\ tr <= Len(translations)
    /\ ~(TooLong(translations[tr]) /\ ~potentially_harmful)
    /\ out' = IF TooLong(translations[tr])
              THEN Append(out, HarmWarning(translations[tr]))
              ELSE out
    /\ from' = string_to_utf16_vec(translations[tr].original)
    /\ to' = string_to_utf16_vec(translations[tr].translated)
    /\ pc' = "call"
    /\ UNCHANGED <<exe_buf, buf0, translations, potentially_harmful,
                   overflow_checks, section, sec, selected, tr, base, size, i,
                   range_end, number_replaced, slice0, written>>

\* Line 113: the count replace_slice returned is printed; next entry.
TranslateReport ==
    /\ pc = "ret"
    /\ out' = Append(out, ReplacedLine(number_replaced, translations[tr]))
    /\ tr' = EntryAfter(tr)
    /\ pc' = "translate"
    /\ UNCHANGED <<exe_buf, buf0, translations, potentially_harmful,
                   overflow_checks, section, sec, selected, base, size, from,
                   to, i, range_end, number_replaced, slice0, written>>

\* Line 115: the table is exhausted, translate returns.
TranslateReturn ==
    /\ pc = "translate"
    /\ tr > Len(translations)
    /\ pc' = "translated"
    /\ UNCHANGED <<exe_buf, buf0, translations, potentially_harmful,
                   overflow_checks, section, sec, selected, tr, base, size,
                   from, to, i, range_end, number_replaced, slice0, out, written>>

TranslateNext ==
    \/ TranslateSkip
    \/ TranslateCall
    \/ ReplaceSliceEnter
    \/ ScanMismatch
    \/ ScanIndexPanic
    \/ ScanMatch
    \/ ScanExit
    \/ TranslateReport
    \/ TranslateReturn

\* The entries whose two strings hold w characters together.
EntriesOfChars(C, w) ==
    UNION {{[original |-> o, translated |-> t] :
                o \in [1..k -> C], t \in [1..(w - k) -> C]} : k \in 0..w}

\* The tables of size at most s, a row counting for its characters plus one.
RECURSIVE TablesUpTo(_, _)
TablesUpTo(C, s) ==
    {<<>>} \cup
    UNION {{<<e>> \o t : e \in EntriesOfChars(C, w), t \in TablesUpTo(C, s - 1 - w)} :
              w \in 0..(s - 1)}

\* translate on a region that is the whole buffer, with the given tables.
TranslateInit(regions, tables) ==
    /\ exe_buf \in regions
    /\ buf0 = exe_buf
    /\ translations \in tables
    /\ potentially_harmful \in BOOLEAN
    /\ overflow_checks = "either"
    /\ base = 0
    /\ size = Len(exe_buf)
    /\ pc = "translate"
    /\ section = NoSection
    /\ sec = 0
    /\ selected = {}
    /\ tr = 1
    /\ from = <<>>
    /\ to = <<>>
    /\ i = 0
    /\ range_end = 0
    /\ number_replaced = 0
    /\ slice0 = exe_buf
    /\ out = <<>>
    /\ written = <<>>

\* One entry, any two strings of MaxEntryChars characters together.
EntryInit ==
    TranslateInit(SeqsUpTo(ByteVals, MaxEntryRegionLen),
                  {<<e>> : e \in UNION {EntriesOfChars(Chars, w) : w \in 0..MaxEntryChars}})

SpecEntry == EntryInit /\ [][TranslateNext]_vars

\* Any table of size at most MaxTableSize.
TableInit ==
    TranslateInit(SeqsUpTo(ByteVals, MaxTableRegionLen),
                  TablesUpTo(TableChars, MaxTableSize))

SpecTable == TableInit /\ [][TranslateNext]_vars

----------------------------------------------------------------------------
(* replace_slice and translate as functions of their arguments: what a     *)
(* whole call does to the slice.  checks = the build has overflow checks.  *)

\* The 'outer loop from offset k on, c matches replaced so far.
RECURSIVE ScanFrom(_, _, _, _, _, _)
ScanFrom(src, f, t, k, n, c) ==
    IF k >= n THEN [src |-> src, count |-> c, panicked |-> FALSE]
    ELSE LET r == Compare(src, f, k, 0) IN
         IF r = "differs" THEN ScanFrom(src, f, t, k + 1, n, c)
         ELSE IF r = "oob" THEN [src |-> src, count |-> c, panicked |-> TRUE]
         ELSE IF WritePanics(src, t, k)
              THEN [src |-> WriteAt(src, f, t, k), count |-> c, panicked |-> TRUE]
              ELSE ScanFrom(WriteAt(src, f, t, k), f, t, k + 1, n, c + 1)

replace_slice(src, f, t, checks) ==
    IF checks /\ Len(src) < EndOffset(f, t)
    THEN [src |-> src, count |-> 0, panicked |-> TRUE]
    ELSE ScanFrom(src, f, t, 0, RangeEnd(Len(src), f, t), 0)

\* The for loop of translate from entry k on.
RECURSIVE TranslateFrom(_, _, _, _, _, _)
TranslateFrom(src, table, k, harmful, checks, printed) ==
    IF k > Len(table) THEN [src |-> src, out |-> printed, panicked |-> FALSE]
    ELSE IF TooLong(table[k]) /\ ~harmful
    THEN TranslateFrom(src, table, EntryAfter(k), harmful, checks,
                       Append(printed, SkipWarning(table[k])))
    ELSE LET warned == IF TooLong(table[k])
                       THEN Append(printed, HarmWarning(table[k]))
                       ELSE printed
             r == replace_slice(src, string_to_utf16_vec(table[k].original),
                                string_to_utf16_vec(table[k].translated), checks)
         IN IF r.panicked
            THEN [src |-> r.src, out |-> warned, panicked |-> TRUE]
            ELSE TranslateFrom(r.src, table, EntryAfter(k), harmful, checks,
                               Append(warned, ReplacedLine(r.count, table[k])))

translate(src, table, harmful, checks) ==
    TranslateFrom(src, table, 1, harmful, checks, <<>>)

----------------------------------------------------------------------------
(* main: the for_each over the sections, one action per section.  The      *)
(* closure looks at one section at a time and never ahead, so the section  *)
(* list is given to it one section at a time.                              *)

\* What section.name() gives: Ok(".rdata"), Ok(".text"), or an Err for a name
\* that does not decode, written "undecodable".
SectionNames == {".rdata", ".text", "undecodable"}

\* The sections whose extent lies inside the largest image; inside a shorter
\* image it may not.
Sections ==
    {s \in [name : SectionNames, ptr : 0..MaxImageLen, size : 0..MaxImageLen] :
        s.ptr + s.size <= MaxImageLen}

\* The buffer offsets (1-based) of a section's raw-data extent.
Extent(s) == (s.ptr + 1)..(s.ptr + s.size)

\* Mutant of SectionSlice: the slice runs to the end of the buffer.
SectionSlice_ToEnd(buf, s) == SliceOf(buf, s.ptr, Len(buf) - s.ptr)

\* Line 191: &mut exe_buf[ptr .. ptr + size]
SectionSlice(buf, s) == SliceOf(buf, s.ptr, s.size)

\* Line 186: for_each hands the next section to the closure.
MainNextSection(s) ==
    /\ pc = "sections"
    /\ sec < MaxSections
    /\ section' = s
    /\ sec' = sec + 1
    /\ pc' = "section"
    /\ UNCHANGED <<exe_buf, buf0, translations, potentially_harmful,
                   overflow_checks, selected, tr, base, size, from, to, i,
                   range_end, number_replaced, slice0, out, written>>

\* Lines 187-192: the body of the closure for the section it was given.
MainSection ==
    /\ pc = "section"
    /\ \/ \* line 190: unwrap() of an Err panics
          /\ section.name = "undecodable"
          /\ pc' = "panicked"
          /\ UNCHANGED <<exe_buf, overflow_checks, section, selected, out>>
       \/ \* line 190: another name, nothing is done
          /\ section.name \notin {"undecodable", ".rdata"}
          /\ pc' = "sections"
          /\ section' = NoSection
          /\ UNCHANGED <<exe_buf, overflow_checks, selected, out>>
       \/ \* line 191: the range ptr .. ptr + size is not inside the buffer
          /\ section.name = ".rdata"
          /\ section.ptr + section.size > Len(exe_buf)
          /\ pc' = "panicked"
          /\ UNCHANGED <<exe_buf, overflow_checks, section, selected, out>>
       \/ \* line 191: translate on the slice, in a build with overflow checks
          /\ section.name = ".rdata"
          /\ section.ptr + section.size <= Len(exe_buf)
          /\ overflow_checks = "either"
          /\ LET r == translate(SectionSlice(exe_buf, section), translations,
                                potentially_harmful, TRUE)
             IN /\ exe_buf' = Splice(exe_buf, section.ptr, r.src)
                /\ out' = out \o r.out
                /\ pc' = IF r.panicked THEN "panicked" ELSE "sections"
                /\ section' = IF r.panicked THEN section ELSE NoSection
          /\ selected' = selected \cup Extent(section)
          /\ UNCHANGED overflow_checks
       \/ \* line 191: translate on the slice, in a build without
          /\ section.name = ".rdata"
          /\ section.ptr + section.size <= Len(exe_buf)
          /\ LET r == translate(SectionSlice(exe_buf, section), translations,
                                potentially_harmful, FALSE)
             IN /\ exe_buf' = Splice(exe_buf, section.ptr, r.src)
                /\ out' = out \o r.out
                /\ pc' = IF r.panicked THEN "panicked" ELSE "sections"
                /\ section' = IF r.panicked THEN section ELSE NoSection
                /\ overflow_checks' =
                      IF r = translate(SectionSlice(exe_buf, section), translations,
                                       potentially_harmful, TRUE)
                      THEN overflow_checks
                      ELSE "off"
          /\ selected' = selected \cup Extent(section)
    /\ UNCHANGED <<buf0, translations, potentially_harmful, sec, tr, base, size,
                   from, to, i, range_end, number_replaced, slice0, written>>

\* Line 195: the sections are exhausted, the buffer is written out.
MainWrite ==
    /\ pc = "sections"
    /\ written' = <<exe_buf>>
    /\ pc' = "done"
    /\ UNCHANGED <<exe_buf, buf0, translations, potentially_harmful,
                   overflow_checks, section, sec, selected, tr, base, size,
                   from, to, i, range_end, number_replaced, slice0, out>>

MainNext ==
    \/ \E s \in Sections : MainNextSection(s)
    \/ MainSection
    \/ MainWrite

\* Lines 181-184: the image and the table are loaded, the sections parsed.
MainInit ==
    /\ exe_buf \in SeqsUpTo(ByteVals, MaxImageLen)
    /\ buf0 = exe_buf
    /\ translations \in
          {<<>>} \cup {<<e>> : e \in UNION {EntriesOfChars(TableChars, w) : w \in 0..MaxMainChars}}
    /\ potentially_harmful \in BOOLEAN
    /\ overflow_checks = "either"
    /\ pc = "sections"
    /\ section = NoSection
    /\ sec = 0
    /\ selected = {}
    /\ tr = 1
    /\ base = 0
    /\ size = 0
    /\ from = <<>>
    /\ to = <<>>
    /\ i = 0
    /\ range_end = 0
    /\ number_replaced = 0
    /\ slice0 = <<>>
    /\ out = <<>>
    /\ written = <<>>

SpecMain == MainInit /\ [][MainNext]_vars

----------------------------------------------------------------------------
(* Vocabulary of the properties of replace_slice.                          *)

\* The slice as it is now.
Region == SliceOf(exe_buf, base, size)

\* pat occurs in reg at offset p.
Occurs(reg, pat, p) ==
    /\ p >= 0
    /\ p + Len(pat) <= Len(reg)
    /\ SubSeq(reg, p + 1, p + Len(pat)) = pat

Occurrences(reg, pat) == {p \in 0..Len(reg) : Occurs(reg, pat, p)}

\* No two occurrences of pat in reg share a byte.
NonOverlapping(reg, pat) ==
    \A p, q \in Occurrences(reg, pat) : p < q => p + Len(pat) <= q

\* reg with the len(f) bytes at every offset of P replaced by t followed by
\* len(f) - len(t) zero bytes (for len(t) <= len(f) and P non-overlapping).
Substituted(reg, f, t, P) ==
    [x \in 1..Len(reg) |->
        IF \E p \in P : p < x /\ x <= p + Len(f)
        THEN LET p == CHOOSE q \in P : q < x /\ x <= q + Len(f)
             IN IF x - p <= Len(t) THEN t[x - p] ELSE 0
        ELSE reg[x]]

\* Overwriting the occurrence at p creates no occurrence of f that starts
\* inside the overwritten span, after p.
NoNewOccurrence(reg, f, t, p) ==
    \A q \in (p + 1)..(p + Len(f) - 1) :
        ~Occurs(Substituted(reg, f, t, {p}), f, q)

----------------------------------------------------------------------------
(* C1: for every region of any length, every non-empty `from` that occurs  *)
(* at no offset of the region and every `to`, replace_slice returns 0 and  *)
(* leaves every byte of the region unchanged.  Stated as: in such a call   *)
(* the region never changes, the call never panics, and the count it       *)
(* returns is 0.                                                           *)
C1_AbsentPatternReturnsZero ==
    (from # <<>> /\ Occurrences(slice0, from) = {} /\ pc # "call")
        => /\ pc # "panicked"
           /\ Region = slice0
           /\ number_replaced = 0

(* C4: whenever len(from) = 0 or the region is shorter than                *)
(* max(len(from), len(to)), replace_slice returns 0 without modifying the  *)
(* region and without failing.                                             *)
C4_EmptyScanRange ==
    ((Len(from) = 0 \/ size < EndOffset(from, to)) /\ pc # "call")
        => /\ pc # "panicked"
           /\ Region = slice0
           /\ number_replaced = 0

(* C2 as stated: a region with exactly one occurrence of `from`, at p, and *)
(* len(to) <= len(from): replace_slice returns 1 and the region ends as    *)
(* region[0..p) ++ to ++ zeros ++ region[p+len(from)..].                   *)
C2_SingleOccurrence ==
    (/\ pc # "call"
     /\ Cardinality(Occurrences(slice0, from)) = 1
     /\ Len(to) <= Len(from))
        => /\ pc # "panicked"
           /\ pc = "ret" =>
                /\ number_replaced = 1
                /\ Region = Substituted(slice0, from, to, Occurrences(slice0, from))

(* C2 amended: the same, for the regions in which overwriting the          *)
(* occurrence creates no new occurrence of `from` that starts inside the   *)
(* overwritten span.                                                       *)
C2_SingleOccurrenceNoRematch ==
    (/\ pc # "call"
     /\ Cardinality(Occurrences(slice0, from)) = 1
     /\ Len(to) <= Len(from)
     /\ \A p \in Occurrences(slice0, from) : NoNewOccurrence(slice0, from, to, p))
        => /\ pc # "panicked"
           /\ pc = "ret" =>
                /\ number_replaced = 1
                /\ Region = Substituted(slice0, from, to, Occurrences(slice0, from))

\* C2 witness: a returned call on a region with one occurrence, strictly inside
\* the region, of a pattern longer than its replacement.
C2_Witness ==
    /\ pc = "ret"
    /\ Cardinality(Occurrences(slice0, from)) = 1
    /\ 0 \notin Occurrences(slice0, from)
    /\ (size - Len(from)) \notin Occurrences(slice0, from)
    /\ Len(to) < Len(from)
    /\ to # <<>>
    /\ \A p \in Occurrences(slice0, from) : NoNewOccurrence(slice0, from, to, p)
    /\ number_replaced = 1
    /\ Region # slice0

(* C9 as stated: a region whose occurrences of `from` do not overlap and   *)
(* len(to) <= len(from): one call overwrites every occurrence with `to`    *)
(* and returns the number of occurrences in the initial region.            *)
C9_AllOccurrences ==
    (/\ pc # "call"
     /\ Occurrences(slice0, from) # {}
     /\ NonOverlapping(slice0, from)
     /\ Len(to) <= Len(from))
        => /\ pc # "panicked"
           /\ pc = "ret" =>
                /\ number_replaced = Cardinality(Occurrences(slice0, from))
                /\ Region = Substituted(slice0, from, to, Occurrences(slice0, from))

(* C9 amended: the same, for the regions in which overwriting any one      *)
(* occurrence creates no new occurrence of `from` that starts inside the   *)
(* overwritten span.                                                       *)
C9_AllOccurrencesNoRematch ==
    (/\ pc # "call"
     /\ Occurrences(slice0, from) # {}
     /\ NonOverlapping(slice0, from)
     /\ Len(to) <= Len(from)
     /\ \A p \in Occurrences(slice0, from) : NoNewOccurrence(slice0, from, to, p))
        => /\ pc # "panicked"
           /\ pc = "ret" =>
                /\ number_replaced = Cardinality(Occurrences(slice0, from))
                /\ Region = Substituted(slice0, from, to, Occurrences(slice0, from))

\* C9 witness: a returned call that replaced two back-to-back occurrences, the
\* second one ending at the end of the region.
C9_Witness ==
    /\ pc = "ret"
    /\ Len(from) >= 2
    /\ Len(to) <= Len(from)
    /\ to # from
    /\ \E p \in Occurrences(slice0, from) :
          /\ Occurrences(slice0, from) = {p, p + Len(from)}
          /\ p + 2 * Len(from) = size
    /\ \A p \in Occurrences(slice0, from) : NoNewOccurrence(slice0, from, to, p)
    /\ number_replaced = 2

----------------------------------------------------------------------------
(* Vocabulary of the properties of translate.                              *)

\* The entry the for loop of translate is at.
Entry == translations[tr]

\* Reading a null-terminated UTF-16LE string at offset p: the code units up
\* to the first zero unit; <<-1>> marks a read that runs off the buffer.
RECURSIVE UnitsFrom(_, _)
UnitsFrom(buf, p) ==
    IF p + 2 > Len(buf) THEN <<-1>>
    ELSE LET u == buf[p + 1] + 256 * buf[p + 2] IN
         IF u = 0 THEN <<>> ELSE <<u>> \o UnitsFrom(buf, p + 2)

\* UTF-16 code units to scalar values; -1 marks what is no scalar value.
RECURSIVE DecodeUtf16(_)
DecodeUtf16(u) ==
    IF u = <<>> THEN <<>>
    ELSE IF Head(u) >= 55296 /\ Head(u) < 56320
    THEN IF Len(u) >= 2 /\ u[2] >= 56320 /\ u[2] < 57344
         THEN <<65536 + (Head(u) - 55296) * 1024 + (u[2] - 56320)>>
                  \o DecodeUtf16(Tail(Tail(u)))
         ELSE <<-1>> \o DecodeUtf16(Tail(u))
    ELSE IF Head(u) < 0 \/ (Head(u) >= 56320 /\ Head(u) < 57344)
    THEN <<-1>> \o DecodeUtf16(Tail(u))
    ELSE <<Head(u)>> \o DecodeUtf16(Tail(u))

DecodedAt(buf, p) == DecodeUtf16(UnitsFrom(buf, p))

\* The bytes of buf at offsets [a, b) are all zero.
ZeroBetween(buf, a, b) == \A x \in (a + 1)..b : buf[x] = 0

\* The left-to-right fold of replace_slice over the entries that are not
\* skipped (translation longer than the original, flag off).
RECURSIVE FoldEntries(_, _, _)
FoldEntries(src, entries, harmful) ==
    IF entries = <<>> THEN src
    ELSE LET f == string_to_utf16_vec(Head(entries).original)
             t == string_to_utf16_vec(Head(entries).translated)
         IN IF Len(t) > Len(f) /\ ~harmful
            THEN FoldEntries(src, Tail(entries), harmful)
            ELSE FoldEntries(replace_slice(src, f, t, FALSE).src, Tail(entries), harmful)

(* C3: an entry whose encoded translation is longer than its encoded       *)
(* original, with the flag off, is finished in one step that does not call *)
(* replace_slice, leaves the region as it is, prints exactly one line, the *)
(* skip warning, and leaves the loop at the next entry.                    *)
C3_LongerIsSkipped ==
    [][(/\ pc = "translate"
        /\ tr <= Len(translations)
        /\ Len(string_to_utf16_vec(Entry.translated)) > Len(string_to_utf16_vec(Entry.original))
        /\ ~potentially_harmful)
            => /\ exe_buf' = exe_buf
               /\ out' = Append(out, SkipWarning(Entry))
               /\ tr' = tr + 1
               /\ pc' = "translate"]_vars

\* C3 witness: translate has returned after skipping its first entry and
\* replacing an occurrence of its second.
C3_Witness ==
    /\ pc = "translated"
    /\ Len(translations) = 2
    /\ Len(out) = 2
    /\ out[1] = SkipWarning(translations[1])
    /\ out[2].kind = "replaced"
    /\ out[2].count = 1
    /\ Occurrences(buf0, string_to_utf16_vec(translations[1].original)) # {}

(* C5: with the flag on and len(to) > len(from), a match at offset i makes *)
(* the region hold `to` at [i, i+len(to)) and changes no byte before i or  *)
(* from i+len(to) on.                                                      *)
C5_SpillExtent ==
    [][(/\ pc = "scan"
        /\ i < range_end
        /\ potentially_harmful
        /\ Len(to) > Len(from)
        /\ Compare(Region, from, i, 0) = "match")
            => /\ Occurs(Region', to, i)
               /\ \A x \in 1..Len(exe_buf) :
                     (x <= base + i \/ x > base + i + Len(to)) => exe_buf'[x] = exe_buf[x]]_vars

\* The two encoded strings of the one entry of the table.
EncOriginal == string_to_utf16_vec(translations[1].original)

EncTranslated == string_to_utf16_vec(translations[1].translated)

\* At every offset where the region held the encoded original, the buffer
\* now reads as the translation, and is zero from the end of the encoded
\* translation to the end of the span.
ReadsAsTranslation ==
    \A p \in Occurrences(buf0, EncOriginal) :
        /\ DecodedAt(exe_buf, p) = translations[1].translated
        /\ ZeroBetween(exe_buf, p + Len(EncTranslated), p + Len(EncOriginal))

(* C7 as stated: the encoded translation strictly shorter than the encoded *)
(* original: after the entry is applied, at every offset p where the       *)
(* region held the encoded original, the bytes decode as the translation   *)
(* and are zero from the end of the encoded translation to the end of the  *)
(* span.                                                                   *)
C7_ShorterDecodes ==
    (/\ pc = "translated"
     /\ Len(translations) = 1
     /\ Len(EncTranslated) < Len(EncOriginal))
        => ReadsAsTranslation

(* C7 amended: the same, for a translation without U+0000 and a region in  *)
(* which the occurrences of the encoded original do not overlap and        *)
(* overwriting one of them creates no new occurrence that starts inside    *)
(* the overwritten span.                                                   *)
C7_ShorterDecodesNoRematch ==
    (/\ pc = "translated"
     /\ Len(translations) = 1
     /\ Len(EncTranslated) < Len(EncOriginal)
     /\ \A k \in 1..Len(translations[1].translated) : translations[1].translated[k] # 0
     /\ NonOverlapping(buf0, EncOriginal)
     /\ \A p \in Occurrences(buf0, EncOriginal) :
           NoNewOccurrence(buf0, EncOriginal, EncTranslated, p))
        => ReadsAsTranslation

\* C7 witness: a one-character translation has replaced a two-character
\* original that was not at the start of the region.
C7_Witness ==
    /\ pc = "translated"
    /\ Len(translations) = 1
    /\ Len(translations[1].translated) = 1
    /\ Len(translations[1].original) = 2
    /\ translations[1].translated[1] # 0
    /\ \A k \in 1..2 : translations[1].original[k] # 0
    /\ Occurrences(buf0, EncOriginal) # {}
    /\ 0 \notin Occurrences(buf0, EncOriginal)
    /\ NonOverlapping(buf0, EncOriginal)
    /\ \A p \in Occurrences(buf0, EncOriginal) :
           NoNewOccurrence(buf0, EncOriginal, EncTranslated, p)
    /\ out[1].kind = "replaced"
    /\ out[1].count = 1
    /\ ReadsAsTranslation

(* C10: at every entry of the loop of translate, and when it returns, the  *)
(* loop index is inside the table or just past it, the region is the       *)
(* left-to-right fold of replace_slice over the non-skipped entries before *)
(* the loop index, and the lines printed are those of these entries, in    *)
(* table order.                                                            *)
C10_FoldInTableOrder ==
    (pc \in {"translate", "translated"})
        => /\ tr <= Len(translations) + 1
           /\ Region = FoldEntries(SliceOf(buf0, base, size),
                                   SubSeq(translations, 1, tr - 1), potentially_harmful)
           /\ out = translate(SliceOf(buf0, base, size),
                              SubSeq(translations, 1, tr - 1), potentially_harmful, FALSE).out

\* C10 witness: the table [A -> B, B -> C] on a region holding A: the second
\* entry matched what the first one wrote, and the region reads C.
C10_Witness ==
    /\ pc = "translated"
    /\ Len(translations) = 2
    /\ translations[1].translated = translations[2].original
    /\ translations[1].original # translations[2].original
    /\ translations[1].original # <<>>
    /\ translations[2].original # <<>>
    /\ translations[2].translated # translations[2].original
    /\ Occurs(buf0, string_to_utf16_vec(translations[1].original), 0)
    /\ Len(out) = 2
    /\ out[1].count = 1
    /\ out[2].count = 1
    /\ DecodedAt(exe_buf, 0) = translations[2].translated

\* C10 witness of the other order, [B -> C, A -> B] on a region holding A:
\* the region reads B.
C10_WitnessReversed ==
    /\ pc = "translated"
    /\ Len(translations) = 2
    /\ translations[2].translated = translations[1].original
    /\ translations[1].original # translations[2].original
    /\ translations[1].original # <<>>
    /\ translations[2].original # <<>>
    /\ translations[1].translated # translations[1].original
    /\ Occurs(buf0, string_to_utf16_vec(translations[2].original), 0)
    /\ out[1].count = 0
    /\ out[2].count = 1
    /\ DecodedAt(exe_buf, 0) = translations[2].translated

----------------------------------------------------------------------------
(* Properties of the section loop of main.                                 *)

(* C6: a section whose name does not decode or is not ".rdata" is passed   *)
(* over without an error: the closure returns to the loop and no byte of   *)
(* the buffer is changed.                                                  *)
C6_OtherSectionsPassedOver ==
    [][(pc = "section" /\ section.name # ".rdata")
           => (pc' = "sections" /\ exe_buf' = exe_buf)]_vars

(* C8: after a complete run the buffer has the length of the input, every  *)
(* byte outside the extents of the selected sections is the input byte,    *)
(* and that buffer is what was written.                                    *)
C8_OnlySelectedExtentsChange ==
    (pc = "done")
        => /\ Len(exe_buf) = Len(buf0)
           /\ \A x \in 1..Len(buf0) : x \notin selected => exe_buf[x] = buf0[x]
           /\ written = <<exe_buf>>

\* C8 witness: a complete run with the flag on in which a longer translation
\* was written over a match and changed the last byte of a selected extent
\* that has a byte of the image right after it.
C8_Witness ==
    /\ pc = "done"
    /\ potentially_harmful
    /\ Len(translations) = 1
    /\ Len(string_to_utf16_vec(translations[1].translated))
           > Len(string_to_utf16_vec(translations[1].original))
    /\ \E k \in 1..Len(out) : out[k].kind = "replaced" /\ out[k].count >= 1
    /\ \E x \in selected :
          /\ x < Len(buf0)
          /\ (x + 1) \notin selected
          /\ exe_buf[x] # buf0[x]

====
